---------------------------- MODULE Spec2Model ----------------------------
(***************************************************************************)
(* A model of the hledger journal parser of src/src/lib.rs.                *)
(*                                                                         *)
(* Input text is a sequence of one-character strings.  Every parser of    *)
(* the library is an operator from an input to a parse result:            *)
(*   Ok(rem, val)  the nom result Ok((rem, val)),                          *)
(*   Err           the recoverable nom error Err(Err::Error(_)),           *)
(*   Panic         the call did not return (todo!() unwinds the thread).   *)
(* Option<T> is a sequence of at most one element.                         *)
(***************************************************************************)
EXTENDS Integers, Sequences, FiniteSets, TLC

VARIABLES shape, input, called, result

vars == <<shape, input, called, result>>

-----------------------------------------------------------------------------
(* Characters *)

SP == " "
TAB == "\t"
LF == "\n"
CR == "\r"

Digits == {"0", "1", "2", "3", "4", "5", "6", "7", "8", "9"}

Lower ==
  {"a", "b", "c", "d", "e", "f", "g", "h", "i", "j", "k", "l", "m",
   "n", "o", "p", "q", "r", "s", "t", "u", "v", "w", "x", "y", "z"}

Upper ==
  {"A", "B", "C", "D", "E", "F", "G", "H", "I", "J", "K", "L", "M",
   "N", "O", "P", "Q", "R", "S", "T", "U", "V", "W", "X", "Y", "Z"}

\* nom's is_alphabetic: ASCII letters only.
Alpha == Lower \cup Upper

\* nom's is_space: a space or a tab, never a newline.
Spaces == {SP, TAB}

-----------------------------------------------------------------------------
(* Results and options *)

None == << >>

Some(x) == <<x>>

Ok(rem, val) == [tag |-> "Ok", rem |-> rem, val |-> val]

Err == [tag |-> "Err"]

Panic == [tag |-> "Panic"]

Take(i, n) == SubSeq(i, 1, n)

Drop(i, n) == SubSeq(i, n + 1, Len(i))

SetMin(S) == CHOOSE x \in S : \A y \in S : x <= y

\* Length of the longest prefix of i whose characters all lie in S.
PrefixLen(i, S) ==
  LET bad == {k \in 1..Len(i) : i[k] \notin S}
  IN IF bad = {} THEN Len(i) ELSE SetMin(bad) - 1

\* Length of the longest prefix of i with no character of Stop.
PrefixLenTill(i, Stop) ==
  LET hit == {k \in 1..Len(i) : i[k] \in Stop}
  IN IF hit = {} THEN Len(i) ELSE SetMin(hit) - 1

-----------------------------------------------------------------------------
(* Integer types.  A digit run is compared with the type's largest value   *)
(* digit by digit, so that overflow is decided on runs of any length; the  *)
(* value itself is computed only for runs that fit.                        *)

I64_MAX == <<"9","2","2","3","3","7","2","0","3","6","8","5","4","7","7","5","8","0","7">>

I64_MIN_MAGNITUDE == <<"9","2","2","3","3","7","2","0","3","6","8","5","4","7","7","5","8","0","8">>

U64_MAX == <<"1","8","4","4","6","7","4","4","0","7","3","7","0","9","5","5","1","6","1","5">>

I32_MAX == <<"2","1","4","7","4","8","3","6","4","7">>

U8_MAX == <<"2","5","5">>

DigitVal(c) ==
  CASE c = "0" -> 0 [] c = "1" -> 1 [] c = "2" -> 2 [] c = "3" -> 3
    [] c = "4" -> 4 [] c = "5" -> 5 [] c = "6" -> 6 [] c = "7" -> 7
    [] c = "8" -> 8 [] c = "9" -> 9

StripZeroes(digs) == Drop(digs, PrefixLen(digs, {"0"}))

\* a <= b for digit runs of equal length.
LexLeq(a, b) ==
  LET diff == {k \in 1..Len(a) : a[k] # b[k]}
  IN diff = {} \/ DigitVal(a[SetMin(diff)]) < DigitVal(b[SetMin(diff)])

\* value.checked_mul(10).and_then(checked_add(d)) never returns None over
\* the digit run: the run's value is at most max.
Fits(digs, max) ==
  LET s == StripZeroes(digs)
  IN Len(s) < Len(max) \/ (Len(s) = Len(max) /\ LexLeq(s, max))

RECURSIVE DecValue(_)
DecValue(digs) ==
  IF digs = << >> THEN 0
  ELSE 10 * DecValue(Take(digs, Len(digs) - 1)) + DigitVal(digs[Len(digs)])

-----------------------------------------------------------------------------
(* nom combinators *)

char(c, i) ==
  IF i # << >> /\ i[1] = c THEN Ok(Tail(i), c) ELSE Err

space1(i) ==
  LET n == PrefixLen(i, Spaces)
  IN IF n = 0 THEN Err ELSE Ok(Drop(i, n), Take(i, n))

alpha1(i) ==
  LET n == PrefixLen(i, Alpha)
  IN IF n = 0 THEN Err ELSE Ok(Drop(i, n), Take(i, n))

digit1(i) ==
  LET n == PrefixLen(i, Digits)
  IN IF n = 0 THEN Err ELSE Ok(Drop(i, n), Take(i, n))

take_till(Stop, i) ==
  LET n == PrefixLenTill(i, Stop)
  IN Ok(Drop(i, n), Take(i, n))

take_till1(Stop, i) ==
  LET n == PrefixLenTill(i, Stop)
  IN IF n = 0 THEN Err ELSE Ok(Drop(i, n), Take(i, n))

\* The ? operator: a result that is not Ok is returned as it is, an Ok result
\* is handed to the rest of the function.
Then(r, Rest(_)) == IF r.tag = "Ok" THEN Rest(r) ELSE r

\* opt(p)(i), r being p(i): a recoverable error becomes None at i.
opt(r, i) ==
  CASE r.tag = "Ok" -> Ok(r.rem, Some(r.val))
    [] r.tag = "Err" -> Ok(i, None)
    [] OTHER -> r

\* many0_count(char(c))(i)
many0_count(c, i) ==
  LET n == PrefixLen(i, {c})
  IN Ok(Drop(i, n), n)

fail(i) == Err

\* nom::character::complete::u64
u64(i) ==
  LET n == PrefixLen(i, Digits)
      digs == Take(i, n)
  IN IF n = 0 THEN Err
     ELSE IF ~Fits(digs, U64_MAX) THEN Err
     ELSE Ok(Drop(i, n), DecValue(digs))

\* nom::character::complete::i64: an optional sign, then the digits.
i64(i) ==
  LET signed == i # << >> /\ i[1] \in {"-", "+"}
      neg == i # << >> /\ i[1] = "-"
      body == IF signed THEN Tail(i) ELSE i
      n == PrefixLen(body, Digits)
      digs == Take(body, n)
  IN IF n = 0 THEN Err
     ELSE IF ~Fits(digs, IF neg THEN I64_MIN_MAGNITUDE ELSE I64_MAX) THEN Err
     ELSE Ok(Drop(body, n), IF neg THEN 0 - DecValue(digs) ELSE DecValue(digs))

\* map_res(digit1, str::parse)(i) at an unsigned or signed type of largest
\* value max.
map_res_digit1_parse(max, i) ==
  LET r == digit1(i)
  IN IF r.tag # "Ok" THEN r
     ELSE IF ~Fits(r.val, max) THEN Err
     ELSE Ok(r.rem, DecValue(r.val))

-----------------------------------------------------------------------------
(* Number *)

Number_Int(n) == [variant |-> "Int", int |-> n]

Number_Float(n, zeroes, last) ==
  [variant |-> "Float", int |-> n, zeroes |-> zeroes, last |-> last]

\* Number::parse_float_parts with the fraction read as one integer, the zero
\* run after the point not counted.
Number_parse_float_parts_ZeroesUncounted(i) ==
  Then(char(".", i), LAMBDA r1 :
  Then(opt(u64(r1.rem), r1.rem), LAMBDA r3 :
  Ok(r3.rem, [zeroes |-> 0, last |-> r3.val])))

Number_parse_float_parts(i) ==
  Then(char(".", i), LAMBDA r1 :
  Then(many0_count("0", r1.rem), LAMBDA r2 :
  Then(opt(u64(r2.rem), r2.rem), LAMBDA r3 :
  Ok(r3.rem, [zeroes |-> r2.val, last |-> r3.val]))))

Number_parse(i) ==
  Then(i64(i), LAMBDA r1 :
  Then(opt(Number_parse_float_parts(r1.rem), r1.rem), LAMBDA r2 :
  IF r2.val = None THEN Ok(r2.rem, Number_Int(r1.val))
  ELSE Ok(r2.rem, Number_Float(r1.val, r2.val[1].zeroes, r2.val[1].last))))

\* Number::eq with the last arm comparing integer part and trailing digits
\* but not the zero run.
Number_eq_ZeroRunIgnored(l, r) ==
  CASE l.variant = "Int" /\ r.variant = "Int" -> l.int = r.int
    [] l.variant = "Int" /\ r.variant = "Float" ->
         IF r.last = None THEN l.int = r.int ELSE FALSE
    [] l.variant = "Float" /\ r.variant = "Int" ->
         IF l.last = None THEN l.int = r.int ELSE FALSE
    [] l.variant = "Float" /\ r.variant = "Float" ->
         IF l.last = None /\ r.last = None THEN l.int = r.int
         ELSE IF l.last = None \/ r.last = None THEN FALSE
         ELSE l.int = r.int /\ l.last[1] = r.last[1]

\* impl PartialEq for Number, arm by arm.
Number_eq(l, r) ==
  CASE l.variant = "Int" /\ r.variant = "Int" -> l.int = r.int
    [] l.variant = "Int" /\ r.variant = "Float" ->
         IF r.last = None THEN l.int = r.int ELSE FALSE
    [] l.variant = "Float" /\ r.variant = "Int" ->
         IF l.last = None THEN l.int = r.int ELSE FALSE
    [] l.variant = "Float" /\ r.variant = "Float" ->
         IF l.last = None /\ r.last = None THEN l.int = r.int
         ELSE IF l.last = None \/ r.last = None THEN FALSE
         ELSE l.int = r.int /\ l.zeroes = r.zeroes /\ l.last[1] = r.last[1]

-----------------------------------------------------------------------------
(* Value *)

Value_parse_currency(i) ==
  Then(space1(i), LAMBDA r1 :
  Then(alpha1(r1.rem), LAMBDA r2 :
  Ok(r2.rem, r2.val)))

Value_parse(i) ==
  Then(Number_parse(i), LAMBDA r1 :
  Then(opt(Value_parse_currency(r1.rem), r1.rem), LAMBDA r2 :
  Ok(r2.rem, [value |-> r1.val, currency |-> r2.val])))

-----------------------------------------------------------------------------
(* Exchange *)

PerUnit(v) == [variant |-> "PerUnit", value |-> v]

Total(v) == [variant |-> "Total", value |-> v]

\* The body is todo!(): every call panics.
Exchange_parse(i) == Panic

-----------------------------------------------------------------------------
(* ValueAndExchange *)

ValueAndExchange_parse_exchange(i) ==
  Then(space1(i), LAMBDA r1 :
  Exchange_parse(r1.rem))

ValueAndExchange_parse(i) ==
  Then(opt(char("=", i), i), LAMBDA r1 :
  Then(space1(r1.rem), LAMBDA r2 :
  Then(Value_parse(r2.rem), LAMBDA r3 :
  Then(opt(ValueAndExchange_parse_exchange(r3.rem), r3.rem), LAMBDA r4 :
  Ok(r4.rem, [symbol |-> r1.val, value |-> r3.val, exchange |-> r4.val])))))

-----------------------------------------------------------------------------
(* Comment *)

\* parse_comment with the whitespace after the semicolon skipped.
parse_comment_Trimmed(i) ==
  Then(char(";", i), LAMBDA r1 :
  Then(take_till({LF}, Drop(r1.rem, PrefixLen(r1.rem, Spaces))), LAMBDA r2 :
  Ok(r2.rem, r2.val)))

parse_comment(i) ==
  Then(char(";", i), LAMBDA r1 :
  Then(take_till({LF}, r1.rem), LAMBDA r2 :
  Ok(r2.rem, r2.val)))

-----------------------------------------------------------------------------
(* Line *)

Line_parse_account(i) ==
  Then(take_till1({SP, LF}, i), LAMBDA r1 :
  Ok(r1.rem, r1.val))

Line_parse_value(i) ==
  Then(char(SP, i), LAMBDA r1 :
  Then(space1(r1.rem), LAMBDA r2 :
  ValueAndExchange_parse(r2.rem)))

Line_parse_comment(i) ==
  Then(space1(i), LAMBDA r1 :
  parse_comment(r1.rem))

Line_parse(i) ==
  Then(Line_parse_account(i), LAMBDA r1 :
  Then(opt(Line_parse_value(r1.rem), r1.rem), LAMBDA r2 :
  Then(opt(Line_parse_comment(r2.rem), r2.rem), LAMBDA r3 :
  Ok(r3.rem, [account |-> r1.val, value |-> r2.val, comment |-> r3.val]))))

-----------------------------------------------------------------------------
(* Date *)

IsLeap(year) ==
  (year % 4 = 0 /\ year % 100 # 0) \/ year % 400 = 0

DaysInMonth(year, month) ==
  CASE month \in {1, 3, 5, 7, 8, 10, 12} -> 31
    [] month \in {4, 6, 9, 11} -> 30
    [] month = 2 -> IF IsLeap(year) THEN 29 ELSE 28

\* time::Date::from_calendar_date: None stands for Err(ComponentRange).
from_calendar_date(year, month, day) ==
  IF year >= 0 - 9999 /\ year <= 9999 /\ day >= 1 /\ day <= DaysInMonth(year, month)
  THEN Some([year |-> year, month |-> month, day |-> day])
  ELSE None

\* parse_month with the arm of December missing.
parse_month_NoDecember(i) ==
  Then(map_res_digit1_parse(I32_MAX, i), LAMBDA r1 :
  IF r1.val \in 1..11 THEN Ok(r1.rem, r1.val) ELSE fail(r1.rem))

parse_month(i) ==
  Then(map_res_digit1_parse(I32_MAX, i), LAMBDA r1 :
  IF r1.val \in 1..12 THEN Ok(r1.rem, r1.val) ELSE fail(r1.rem))

parse_date(i) ==
  Then(map_res_digit1_parse(I32_MAX, i), LAMBDA r1 :
  Then(char("-", r1.rem), LAMBDA r2 :
  Then(parse_month(r2.rem), LAMBDA r3 :
  Then(char("-", r3.rem), LAMBDA r4 :
  Then(map_res_digit1_parse(U8_MAX, r4.rem), LAMBDA r5 :
  LET date == from_calendar_date(r1.val, r3.val, r5.val) IN
  IF date # None THEN Ok(r5.rem, date[1]) ELSE fail(r5.rem))))))

-----------------------------------------------------------------------------
(* Price *)

Price_new(date, asset, value, comment) ==
  [date |-> date, asset |-> asset, value |-> value, comment |-> comment]

Price_parse_comment(i) ==
  Then(space1(i), LAMBDA r1 :
  parse_comment(r1.rem))

Price_parse(i) ==
  Then(char("P", i), LAMBDA r1 :
  Then(space1(r1.rem), LAMBDA r2 :
  Then(parse_date(r2.rem), LAMBDA r3 :
  Then(space1(r3.rem), LAMBDA r4 :
  Then(alpha1(r4.rem), LAMBDA r5 :
  Then(space1(r5.rem), LAMBDA r6 :
  Then(Value_parse(r6.rem), LAMBDA r7 :
  Then(opt(Price_parse_comment(r7.rem), r7.rem), LAMBDA r8 :
  Ok(r8.rem, Price_new(r3.val, r5.val, r7.val, r8.val))))))))))

-----------------------------------------------------------------------------
(* Bounds of the inputs *)

\* Longest run of zeroes written after a decimal point.
MaxZeroes == 2

\* Longest run of spaces written between an account and what follows it.
MaxSep == 4

\* Largest month and day number written in a date.
MaxMonth == 13

MaxDay == 32

\* Longest text drawn character by character from RawAlphabet.
MaxRaw == 3

\* Largest integer part, zero run and trailing digits of a compared Number.
MaxEqInt == 1

MaxEqZeroes == 1

MaxEqLast == 1

-----------------------------------------------------------------------------
(* Input texts.  A shape records the pieces a text was written from; the   *)
(* parsers only ever see the text.                                         *)

Blanks(n) == [k \in 1..n |-> SP]

Zeroes(n) == [k \in 1..n |-> "0"]

\* A digit run too long for any integer type of the library.
Huge == [k \in 1..21 |-> "9"]

DigitChar(d) == CHOOSE c \in Digits : DigitVal(c) = d

TwoDigits(n) == <<DigitChar(n \div 10), DigitChar(n % 10)>>

\* A numeral: sign, integer digits and, after a dot, zeroes then digits.
Num(sign, int, dot, zeroes, last) ==
  [sign |-> sign, int |-> int, dot |-> dot, zeroes |-> zeroes, last |-> last]

NumText(n) ==
  n.sign \o n.int \o (IF n.dot THEN <<".">> \o Zeroes(n.zeroes) \o n.last ELSE << >>)

Signs == {<< >>, <<"-">>, <<"+">>}

IntParts == {<< >>, <<"0">>, <<"7">>, <<"4", "2">>, <<"0", "0", "7">>, Huge}

LastParts == {<< >>, <<"5">>, <<"2", "1">>, <<"5", "0">>, Huge}

Numerals ==
  {Num(sg, ip, FALSE, 0, << >>) : sg \in Signs, ip \in IntParts}
  \cup {Num(x[1], x[2], TRUE, x[3], x[4]) :
          x \in Signs \X IntParts \X (0..MaxZeroes) \X LastParts}

NumberSuffixes == {<< >>, <<SP, "Y">>, <<"x">>}

\* An amount: a numeral and, after whitespace, a commodity tag.
Amount(num, ws, tag) == [num |-> num, ws |-> ws, tag |-> tag]

AmountText(a) == NumText(a.num) \o a.ws \o a.tag

AmountNums ==
  {Num(<< >>, <<"2", "0", "0", "0", "0", "0">>, FALSE, 0, << >>),
   Num(<<"-">>, <<"4", "2">>, TRUE, 0, <<"5", "0">>),
   Num(<< >>, <<"3", "0", "0", "0">>, TRUE, 2, << >>),
   Num(<< >>, <<"1">>, FALSE, 0, << >>)}

Amounts ==
  {Amount(n, << >>, << >>) : n \in AmountNums}
  \cup {Amount(n, <<SP>>, <<"Y">>) : n \in AmountNums}
  \cup {Amount(n, <<TAB>>, <<"C", "A", "D">>) : n \in AmountNums}

WS == {<<SP>>, <<SP, SP>>, <<TAB>>}

\* What follows "@@ " or "@ " in the exchange written on a posting line.
RateAmount ==
  Amount(Num(<< >>, <<"1", "9", "2", "7">>, TRUE, 0, <<"2", "0">>), <<SP>>, <<"C">>)

Years ==
  {<<"1", "9", "0", "0">>, <<"2", "0", "0", "0">>, <<"2", "0", "2", "2">>,
   <<"2", "0", "2", "3">>, <<"2", "0", "2", "4">>, <<"0", "0", "0", "4">>, Huge}

MonthTexts == {TwoDigits(m) : m \in 0..MaxMonth} \cup {<<"7">>, <<"0", "0", "7">>}

DayTexts ==
  {TwoDigits(d) : d \in 0..MaxDay}
  \cup {<<"5">>, <<"0", "1", "6">>, <<"2", "5", "6">>}

DateText(d) == d.year \o <<"-">> \o d.month \o <<"-">> \o d.day

PriceDates ==
  {[year |-> <<"2", "0", "2", "2">>, month |-> <<"0", "7">>, day |-> <<"1", "2">>],
   [year |-> <<"2", "0", "2", "4">>, month |-> <<"2">>, day |-> <<"2", "9">>],
   [year |-> <<"2", "0", "2", "3">>, month |-> <<"0", "2">>, day |-> <<"2", "9">>]}

Assets == {<<"T", "S", "L", "A">>, <<"x">>}

CommentTexts ==
  {<< >>, <<SP, "g", "r", "e", "a", "t", SP, "b", "u", "y", "?">>,
   <<"a", ";", "b">>, <<TAB, "x", SP>>}

Terminators == {<< >>, <<LF>>, <<CR, LF>>}

\* The comment written after a price, if any, and the whitespace before it.
PriceComments ==
  {[ws |-> << >>, text |-> None]}
  \cup {[ws |-> x[1], text |-> Some(x[2])] : x \in WS \X CommentTexts}

Accounts ==
  {<<"a">>, <<"a", ":", "b">>,
   <<"a", "s", "s", "e", "t", "s", ":", "c", "a", "s", "h", ":", "s", "t", "a", "s", "h">>}

Separators ==
  {Blanks(n) : n \in 1..MaxSep}
  \cup {<<TAB>>, <<TAB, TAB>>, <<SP, TAB>>, <<TAB, SP>>}

Assertions == {<< >>, <<"=", SP>>, <<"=", SP, TAB>>}

\* What a posting line carries after its amount.
Rests ==
  {[kind |-> "end", text |-> << >>],
   [kind |-> "total", text |-> <<SP, "@", "@", SP>> \o AmountText(RateAmount)],
   [kind |-> "perunit", text |-> <<SP, "@", SP>> \o AmountText(RateAmount)],
   [kind |-> "comment", text |-> <<SP, ";", SP, "n">>],
   [kind |-> "comment", text |-> <<SP, SP, ";">>],
   [kind |-> "space", text |-> <<SP>>],
   [kind |-> "newline", text |-> <<LF>>]}

RawAlphabet == {SP, "1", ".", "=", "a", ";", "@", "-", LF}

RawTexts == UNION {[1..n -> RawAlphabet] : n \in 0..MaxRaw}

EqNumbers ==
  {Number_Int(n) : n \in 0..MaxEqInt}
  \cup {Number_Float(x[1], x[2], None) : x \in (0..MaxEqInt) \X (0..MaxEqZeroes)}
  \cup {Number_Float(x[1], x[2], Some(x[3])) :
          x \in (0..MaxEqInt) \X (0..MaxEqZeroes) \X (1..MaxEqLast)}

-----------------------------------------------------------------------------
(* The state machine: a text (or three Numbers) is chosen, then one        *)
(* function of the library is called on it and its result recorded.        *)

NotCalled == [tag |-> "NotCalled"]

InitNumber ==
  \E n \in Numerals, sfx \in NumberSuffixes :
    /\ shape = [kind |-> "number", num |-> n, suffix |-> sfx]
    /\ input = NumText(n) \o sfx

InitDate ==
  \E y \in Years, m \in MonthTexts, d \in DayTexts :
    /\ shape = [kind |-> "date", date |-> [year |-> y, month |-> m, day |-> d]]
    /\ input = DateText(shape.date)

InitComment ==
  \E text \in CommentTexts, term \in Terminators, next \in {<< >>, <<"x">>} :
    /\ shape = [kind |-> "comment", text |-> text, term |-> term, next |-> next]
    /\ input = <<";">> \o text \o term \o next

InitPosting ==
  \E acc \in Accounts, sep \in Separators, eq \in Assertions,
     a \in Amounts, rest \in Rests :
    /\ shape = [kind |-> "posting", account |-> acc, sep |-> sep,
                assertion |-> eq, amount |-> a, rest |-> rest]
    /\ input = acc \o sep \o eq \o AmountText(a) \o rest.text

InitPrice ==
  \E ws \in WS, d \in PriceDates, asset \in Assets, a \in Amounts,
     c \in PriceComments :
    /\ shape = [kind |-> "price", ws |-> ws, date |-> d, asset |-> asset,
                amount |-> a, comment |-> c]
    /\ input = <<"P">> \o ws \o DateText(d) \o ws \o asset \o ws \o AmountText(a)
                 \o (IF c.text # None THEN c.ws \o <<";">> \o c.text[1] ELSE << >>)

InitExchange ==
  \E intro \in {<<"@", "@">>, <<"@">>}, ws \in WS, a \in Amounts :
    /\ shape = [kind |-> "exchange", intro |-> intro, ws |-> ws, amount |-> a]
    /\ input = intro \o ws \o AmountText(a)

InitRaw ==
  \E text \in RawTexts :
    /\ shape = [kind |-> "raw"]
    /\ input = text

InitNumbers ==
  \E a \in EqNumbers, b \in EqNumbers, c \in EqNumbers :
    /\ shape = [kind |-> "numbers", a |-> a, b |-> b, c |-> c]
    /\ input = << >>

Init ==
  /\ \/ InitNumber
     \/ InitDate
     \/ InitComment
     \/ InitPosting
     \/ InitPrice
     \/ InitExchange
     \/ InitRaw
     \/ InitNumbers
  /\ called = "none"
  /\ result = NotCalled

\* A parser takes a text and has not been called yet.
Callable == called = "none" /\ shape.kind # "numbers"

CallLine ==
  /\ Callable
  /\ called' = "Line::parse"
  /\ result' = Line_parse(input)
  /\ UNCHANGED <<shape, input>>

CallValueAndExchange ==
  /\ Callable
  /\ called' = "ValueAndExchange::parse"
  /\ result' = ValueAndExchange_parse(input)
  /\ UNCHANGED <<shape, input>>

CallValue ==
  /\ Callable
  /\ called' = "Value::parse"
  /\ result' = Value_parse(input)
  /\ UNCHANGED <<shape, input>>

CallNumber ==
  /\ Callable
  /\ called' = "Number::parse"
  /\ result' = Number_parse(input)
  /\ UNCHANGED <<shape, input>>

CallExchange ==
  /\ Callable
  /\ called' = "Exchange::parse"
  /\ result' = Exchange_parse(input)
  /\ UNCHANGED <<shape, input>>

CallPrice ==
  /\ Callable
  /\ called' = "Price::parse"
  /\ result' = Price_parse(input)
  /\ UNCHANGED <<shape, input>>

CallDate ==
  /\ Callable
  /\ called' = "parse_date"
  /\ result' = parse_date(input)
  /\ UNCHANGED <<shape, input>>

CallComment ==
  /\ Callable
  /\ called' = "parse_comment"
  /\ result' = parse_comment(input)
  /\ UNCHANGED <<shape, input>>

\* The three Numbers are compared pairwise, in both argument orders.
CallEq ==
  /\ called = "none"
  /\ shape.kind = "numbers"
  /\ called' = "Number::eq"
  /\ result' = [l \in {"a", "b", "c"} |->
                  [r \in {"a", "b", "c"} |-> Number_eq(shape[l], shape[r])]]
  /\ UNCHANGED <<shape, input>>

Next ==
  \/ CallLine
  \/ CallValueAndExchange
  \/ CallValue
  \/ CallNumber
  \/ CallExchange
  \/ CallPrice
  \/ CallDate
  \/ CallComment
  \/ CallEq

Spec == Init /\ [][Next]_vars

-----------------------------------------------------------------------------
(* What the claims are stated with: the value a written piece stands for,  *)
(* worked out from the pieces of the shape and never by a parser.          *)

\* The integer part and the trailing digits fit i64 and u64.
InRange(n) ==
  /\ Fits(n.int, IF n.sign = <<"-">> THEN I64_MIN_MAGNITUDE ELSE I64_MAX)
  /\ Fits(n.last, U64_MAX)

ExpectedNumber(n) ==
  LET int == IF n.sign = <<"-">> THEN 0 - DecValue(n.int) ELSE DecValue(n.int)
  IN IF ~n.dot THEN Number_Int(int)
     ELSE Number_Float(int, n.zeroes,
                       IF n.last = << >> THEN None ELSE Some(DecValue(n.last)))

ExpectedValue(a) ==
  [value |-> ExpectedNumber(a.num),
   currency |-> IF a.tag = << >> THEN None ELSE Some(a.tag)]

RECURSIVE NatText(_)
NatText(n) ==
  IF n < 10 THEN <<DigitChar(n)>>
  ELSE NatText(n \div 10) \o <<DigitChar(n % 10)>>

\* The canonical printer: the integer part, then for the decimal variant the
\* point, the zero run and the trailing digits.
PrintNumber(v) ==
  (IF v.int < 0 THEN <<"-">> \o NatText(0 - v.int) ELSE NatText(v.int))
  \o (IF v.variant = "Float"
      THEN <<".">> \o Zeroes(v.zeroes)
           \o (IF v.last = None THEN << >> ELSE NatText(v.last[1]))
      ELSE << >>)

\* The Gregorian calendar: months of 31 and 30 days, and February of 29
\* days in the years divisible by 4 that are no century, or by 400.
LastDay(y, m) ==
  IF m = 2 THEN (IF y % 400 = 0 \/ (y % 4 = 0 /\ y % 100 # 0) THEN 29 ELSE 28)
  ELSE IF m \in {4, 6, 9, 11} THEN 30 ELSE 31

IsCalendarDate(y, m, d) == m >= 1 /\ m <= 12 /\ d >= 1 /\ d <= LastDay(y, m)

\* Years 1 to 9999: the years the date grammar is specified for.
YearInScope(ys) ==
  Len(StripZeroes(ys)) \in 1..4

DateOf(d) ==
  [year |-> DecValue(d.year), month |-> DecValue(d.month), day |-> DecValue(d.day)]

WrittenDateExists(d) ==
  /\ YearInScope(d.year)
  /\ IsCalendarDate(DecValue(d.year), DecValue(d.month), DecValue(d.day))

-----------------------------------------------------------------------------
(* Claims *)

\* A posting line written <account><two or more whitespace>[= whitespace]
\* <Amount> and nothing more.
IsAmountPosting ==
  shape.kind = "posting" /\ Len(shape.sep) >= 2 /\ shape.rest.kind = "end"

\* C1: for every posting line <account><two or more whitespace>[= ws]<Amount>
\* Line::parse succeeds, consumes the whole line and returns a posting whose
\* value is present, with symbol Some('=') exactly when the = was written.
C1_PostingAmountParsed ==
  (called = "Line::parse" /\ IsAmountPosting) =>
    /\ result.tag = "Ok"
    /\ result.rem = << >>
    /\ result.val.value # None
    /\ result.val.value[1].symbol =
         (IF shape.assertion = << >> THEN None ELSE Some("="))

\* C2: Exchange::parse on "@@ " + A returns Total(A) and on "@ " + A returns
\* PerUnit(A), and the posting line that ends in "@@ 1927.20 C" parses with
\* empty remainder and exchange Some(Total(1927.20 C)).
C2_ExchangeLongestMatch ==
  /\ (called = "Exchange::parse" /\ shape.kind = "exchange") =>
       result = Ok(<< >>, IF shape.intro = <<"@", "@">>
                          THEN Total(ExpectedValue(shape.amount))
                          ELSE PerUnit(ExpectedValue(shape.amount)))
  /\ (called = "Line::parse" /\ shape.kind = "posting" /\ Len(shape.sep) >= 2
      /\ shape.rest.kind = "total") =>
       /\ result.tag = "Ok"
       /\ result.rem = << >>
       /\ result.val.value # None
       /\ result.val.value[1].exchange = Some(Total(ExpectedValue(RateAmount)))

\* A numeral of the shape [-]?digits(.0*digits?)? within the i64/u64 range,
\* with nothing after it.
IsRoundTripNumeral ==
  /\ shape.kind = "number"
  /\ shape.suffix = << >>
  /\ shape.num.sign # <<"+">>
  /\ shape.num.int # << >>
  /\ InRange(shape.num)

\* C3: Number::parse consumes a whole numeral [-]?digits(.0*digits?)? and
\* printing the parsed form (integer part, point, zeroes, trailing digits)
\* gives the numeral back, character for character.
C3_NumberRoundTrip ==
  (called = "Number::parse" /\ IsRoundTripNumeral) =>
    /\ result.tag = "Ok"
    /\ result.rem = << >>
    /\ PrintNumber(result.val) = input

\* C4: Number::parse gives Int(n) when no dot follows the integer part n,
\* Float(n, k, None) for a dot and k >= 0 zeroes, Float(n, k, Some(d)) for a
\* dot, k zeroes and digits d; it rejects a text with no digit before the
\* dot; and what remains is the input after the numeral (n within i64 and d
\* within u64).
C4_NumberClassification ==
  (called = "Number::parse" /\ shape.kind = "number") =>
    IF shape.num.int = << >> THEN result = Err
    ELSE InRange(shape.num) =>
           result = Ok(shape.suffix, ExpectedNumber(shape.num))

\* C4, witness: a numeral with a dot, zeroes and trailing digits, followed by
\* more text, was parsed.
C4_Witness ==
  /\ called = "Number::parse"
  /\ shape.kind = "number"
  /\ shape.num.dot /\ shape.num.zeroes >= 1 /\ shape.num.last = <<"2", "1">>
  /\ shape.num.sign = <<"-">> /\ shape.num.int = <<"4", "2">>
  /\ shape.suffix # << >>
  /\ result.tag = "Ok"
  /\ result.val.variant = "Float"
  /\ result.rem = shape.suffix

EqNames == {"a", "b", "c"}

C6_DateValidity ==
  (called = "parse_date" /\ shape.kind = "date" /\ YearInScope(shape.date.year)) =>
    IF WrittenDateExists(shape.date)
    THEN result = Ok(<< >>, DateOf(shape.date))
    ELSE result = Err

\* C6, witness: 29 February of a leap year was parsed.
C6_Witness ==
  /\ called = "parse_date"
  /\ shape.kind = "date"
  /\ shape.date.year = <<"2", "0", "2", "4">>
  /\ shape.date.month = <<"0", "2">>
  /\ shape.date.day = <<"2", "9">>
  /\ result.tag = "Ok"
  /\ result.val = [year |-> 2024, month |-> 2, day |-> 29]

\* C7: for every text "P" ws Date ws Asset ws Amount [ws ";" text]
\* Price::parse succeeds with nothing left and returns that date, asset and
\* amount (its commodity tag if written, None if the comment follows the
\* number) and the comment text unchanged, or None with no comment.
C7_PriceParsed ==
  (called = "Price::parse" /\ shape.kind = "price" /\ WrittenDateExists(shape.date)) =>
    result = Ok(<< >>, [date |-> DateOf(shape.date),
                        asset |-> shape.asset,
                        value |-> ExpectedValue(shape.amount),
                        comment |-> shape.comment.text])

\* C7, witness: a price whose number is directly followed by a comment that
\* starts with a space was parsed.
C7_Witness ==
  /\ called = "Price::parse"
  /\ shape.kind = "price"
  /\ shape.amount.tag = << >>
  /\ shape.comment.text # None
  /\ shape.comment.text[1] # << >>
  /\ shape.comment.text[1][1] = SP
  /\ result.tag = "Ok"
  /\ result.val.value.currency = None
  /\ result.val.comment = shape.comment.text

\* C8: every parser of the library returns a success or a failure value on
\* every text and never panics.
C8_ParsersTotal ==
  called \notin {"none", "Number::eq"} => result.tag \in {"Ok", "Err"}

\* C9: whenever Line::parse succeeds the account is non-empty, holds no
\* space, newline or tab, and is the input up to the first whitespace or
\* newline; and one space after the account introduces no amount.
C9_AccountShape ==
  (called = "Line::parse" /\ result.tag = "Ok") =>
    /\ result.val.account # << >>
    /\ \A k \in 1..Len(result.val.account) :
         result.val.account[k] \notin {SP, LF, TAB}
    /\ result.val.account = Take(input, PrefixLenTill(input, {SP, TAB, LF}))
    /\ (shape.kind = "posting" /\ shape.sep = <<SP>> /\ shape.assertion = << >>) =>
         result.val.value = None

\* C10: parse_comment on ";" + text + terminator returns exactly text and
\* leaves the input from the terminator on, for the terminators LF and CR LF
\* alike: the comment of a CR LF line never ends in CR.
C10_CommentTerminator ==
  (called = "parse_comment" /\ shape.kind = "comment" /\ shape.term # << >>) =>
    /\ result.tag = "Ok"
    /\ result.val = shape.text
    /\ result.rem \in {shape.term \o shape.next, <<LF>> \o shape.next}

=============================================================================
